---------------------------- MODULE Spec2Model ----------------------------
(***************************************************************************)
(* Model of the GW event visualisation page.                               *)
(*                                                                         *)
(* The repository holds three generations of the page script:             *)
(*   "script"  src/docs/script.js       (all_events, unique_events, click) *)
(*   "robust"  src/unnamed/part_000     (shape check, fail-soft)           *)
(*   "plots"   src/unnamed/part_002     (histograms, spin, timeline)       *)
(* and the classification rule of the fetch job (src/unnamed/part_001).    *)
(* The marker size of createTrace and the parameter values of the detail   *)
(* panel are pure functions and have specifications of their own.          *)
(* The variable build says which script the page runs.                     *)
(*                                                                         *)
(* JSON values are tagged records so that values of different JSON types   *)
(* can be compared: an array is [tag |-> "array", items |-> <<...>>], a    *)
(* string is tag "string", a missing key is tag "absent".  Numbers that    *)
(* may be missing use NoNum.  Masses are in tenths of a solar mass.        *)
(***************************************************************************)
EXTENDS Integers, Sequences, FiniteSets, TLC

VARIABLES
    build,          \* which script the page runs
    source,         \* what the network will answer: [kind, doc]
    pc,             \* position of loadData: start, fetching, parsing, ready, failed
    fetchCount,     \* number of fetch() calls issued
    allEventsData,  \* global: the stored document (null before a store)
    allEventsList,  \* global (script build): all versions
    options,        \* option values of the #catalogFilter select
    changeHandlers, \* number of 'change' listeners on the select
    selected,       \* current value of the select
    lastEvent,      \* last thing that happened: none, load, change
    displayed,      \* events of the last displayEvents call that rendered
    stats,          \* the four stat cards
    massPlot,       \* content of #massPlot: empty, plot, notice
    filterInfo,     \* the #filterInfo line
    failStep,       \* step of loadData that threw ("none" if none)
    uncaught,       \* an exception escaped a handler / a promise rejected
    traces,         \* data of the last Plotly.newPlot('massPlot', ...)
    spinPlot,       \* content of #spinPlot (robust and plots builds)
    clickedPoint,   \* record of the point the user clicked last
    panelOpen,      \* #eventDetailPanel is displayed
    panelEvent,     \* record showEventDetails rendered last
    versionsShown,  \* #versionsSection is displayed
    versionCards,   \* cards of #versionsList: [version, isPrimary]
    m1, m2,         \* classification input (tenths of a solar mass)
    source_type,    \* classification result
    source_type2,   \* result of computing it again
    tlEvents,       \* timeline input: the displayed sequence
    engine,         \* which Array.prototype.sort the browser has
    tlPc,           \* timeline: input, done
    sortedEvents,   \* timeline: the sorted array
    dates,          \* timeline: x series
    totals,         \* timeline: cumulative total series
    typeCounts,     \* timeline (plots build): the BBH, NSBH, BNS series
    snrA, snrB,     \* marker size input: the snr of two records
    sizeA, sizeB,   \* marker.size of the two records
    field,          \* detail panel: the parameter looked at
    fieldValue,     \* detail panel: what the record holds for it
    shown           \* detail panel: the parameter-value text

pageVars == <<source, pc, fetchCount, allEventsData, allEventsList, options,
              changeHandlers, selected, lastEvent, displayed, stats, massPlot,
              filterInfo, failStep, uncaught, traces, spinPlot, clickedPoint, panelOpen,
              panelEvent, versionsShown, versionCards>>
classVars == <<m1, m2, source_type, source_type2>>
tlVars == <<tlEvents, engine, tlPc, sortedEvents, dates, totals, typeCounts>>
markerVars == <<snrA, snrB, sizeA, sizeB>>
detailVars == <<field, fieldValue, shown>>
vars == <<build, pageVars, classVars, tlVars, markerVars, detailVars>>

-----------------------------------------------------------------------------
(* Bounds *)
MaxEvents == 3
MaxTimeline == 6

-----------------------------------------------------------------------------
(* JSON values *)
NoNum == 0 - 1
Absent == [tag |-> "absent", items |-> <<>>]
NotAnArray == [tag |-> "string", items |-> <<>>]
Arr(s) == [tag |-> "array", items |-> s]
NullDoc == [tag |-> "null", events |-> Absent, all_events |-> Absent,
            unique_events |-> NoNum, event_count |-> NoNum]
Obj(ev, all, uniq, cnt) == [tag |-> "object", events |-> ev, all_events |-> all,
                            unique_events |-> uniq, event_count |-> cnt]

IsArray(v) == v.tag = "array"
\* JS truthiness of a field value: undefined is falsy; a non-empty string and
\* every array (the empty one too) are truthy.
Truthy(v) == v.tag # "absent"

Builds == {"script", "robust", "plots"}
KnownTypes == {"BBH", "NSBH", "BNS"}

-----------------------------------------------------------------------------
(* Dates and Array.prototype.sort with the by-date comparator *)
UnknownDate == [known |-> FALSE, y |-> 0, m |-> 0, d |-> 0]
Date(y, m, d) == [known |-> TRUE, y |-> y, m |-> m, d |-> d]

\* new Date('YYYY-MM-DD') as a day count from 1970-01-01 (the time value is
\* this times 86400000; the sign of a difference is the same).
DateValue(dt) ==
    LET yy == IF dt.m <= 2 THEN dt.y - 1 ELSE dt.y
        era == yy \div 400
        yoe == yy - era * 400
        mp == IF dt.m > 2 THEN dt.m - 3 ELSE dt.m + 9
        doy == (153 * mp + 2) \div 5 + dt.d - 1
        doe == yoe * 365 + yoe \div 4 - yoe \div 100 + doy
    IN era * 146097 + doe - 719468

\* (a, b) => new Date(a.detection_date) - new Date(b.detection_date), as the
\* sort reads it: new Date('Unknown') is an invalid date, the difference is
\* NaN, and a NaN comparator result counts as +0.
compareDates(a, b) ==
    IF ~a.detection_date.known \/ ~b.detection_date.known THEN 0
    ELSE DateValue(a.detection_date) - DateValue(b.detection_date)

Reverse(s) == [i \in 1..Len(s) |-> s[Len(s) + 1 - i]]

\* Array.prototype.sort for a short array as V8 does it: the leading run is
\* found (a strictly descending one reversed), the rest binary-inserted.
RECURSIVE RunEnd(_, _, _)
RunEnd(s, desc, idx) ==
    IF idx > Len(s) THEN Len(s)
    ELSE LET o == compareDates(s[idx], s[idx - 1])
         IN IF (desc /\ o >= 0) \/ (~desc /\ o < 0) THEN idx - 1
            ELSE RunEnd(s, desc, idx + 1)

RECURSIVE BinSearch(_, _, _, _)
BinSearch(s, pivot, left, right) ==
    IF left >= right THEN left
    ELSE LET mid == left + (right - left) \div 2
         IN IF compareDates(pivot, s[mid]) < 0 THEN BinSearch(s, pivot, left, mid)
            ELSE BinSearch(s, pivot, mid + 1, right)

MoveTo(s, pos, start) ==
    SubSeq(s, 1, pos - 1) \o <<s[start]>> \o SubSeq(s, pos, start - 1)
        \o SubSeq(s, start + 1, Len(s))

RECURSIVE BinInsert(_, _)
BinInsert(s, start) ==
    IF start > Len(s) THEN s
    ELSE BinInsert(MoveTo(s, BinSearch(s, s[start], 1, start), start), start + 1)

RunSort(s) ==
    IF Len(s) < 2 THEN s
    ELSE LET desc == compareDates(s[2], s[1]) < 0
             e == RunEnd(s, desc, 3)
             t == IF desc THEN Reverse(SubSeq(s, 1, e)) \o SubSeq(s, e + 1, Len(s))
                  ELSE s
         IN BinInsert(t, e + 1)

\* Array.prototype.sort as a stable top-down merge sort.
RECURSIVE Merge(_, _)
Merge(a, b) ==
    IF a = <<>> THEN b
    ELSE IF b = <<>> THEN a
    ELSE IF compareDates(b[1], a[1]) < 0 THEN <<b[1]>> \o Merge(a, Tail(b))
    ELSE <<a[1]>> \o Merge(Tail(a), b)

RECURSIVE MergeSort(_)
MergeSort(s) ==
    IF Len(s) < 2 THEN s
    ELSE LET h == Len(s) \div 2
         IN Merge(MergeSort(SubSeq(s, 1, h)), MergeSort(SubSeq(s, h + 1, Len(s))))

\* With a consistent comparator every engine returns the one stable order;
\* with an inconsistent one the order is the engine's own.
Engines == {"run_insertion", "merge"}
sortByDate(e, s) == IF e = "merge" THEN MergeSort(s) ELSE RunSort(s)

HasDate(e) == e.detection_date.known

\* The array createTimelinePlot walks: the robust build drops the undated
\* records and sorts the rest; the plots build sorts every record.
timelineSorted(b, e, events) ==
    IF b = "robust" THEN sortByDate(e, SelectSeq(events, HasDate))
    ELSE sortByDate(e, events)

\* The records the forEach pushes a point for: the plots build skips the
\* 'Unknown' ones here, the robust build has none left.
timelinePoints(b, sorted) == IF b = "plots" THEN SelectSeq(sorted, HasDate) ELSE sorted

-----------------------------------------------------------------------------
(* Event records *)
DateOf(n) ==
    CASE n = "GW150914" -> Date(2015, 9, 14)
      [] n = "GW170817" -> Date(2017, 8, 17)
      [] n = "GW190425" -> Date(2019, 4, 25)
      [] n = "GW200105" -> Date(2020, 1, 5)
      [] n = "GW230529" -> Date(2023, 5, 29)
      [] OTHER -> UnknownDate
\* chi_eff of the records, in hundredths: a number (0 too), null, or no
\* such key.
Num(x) == [tag |-> "number", num |-> x]
Null == [tag |-> "null", num |-> 0]
Missing == [tag |-> "missing", num |-> 0]
ChiOf(n, c) ==
    CASE n = "GW150914" /\ c = "GWTC-1-confident" -> Num(0)
      [] n = "GW150914" -> Num(0 - 1)
      [] n = "GW170817" -> Null
      [] n = "GW190425" /\ c = "GWTC-2" -> Num(5)
      [] n = "GW190425" -> Null
      [] n = "GW230529" -> Null
      [] OTHER -> Missing
Rec(n, c, t) == [name |-> n, catalog |-> c, source_type |-> t,
                 detection_date |-> DateOf(n), chi_eff |-> ChiOf(n, c)]
Pool == { Rec("GW150914", "GWTC-1-confident", "BBH"),
          Rec("GW150914", "GWTC-2.1-confident", "BBH"),
          Rec("GW170817", "GWTC-1-confident", "BNS"),
          Rec("GW200105", "GWTC-3-confident", "NSBH"),
          Rec("GW230529", "unknown", "Unknown"),
          Rec("GW190425", "GWTC-2", "bns"),
          Rec("GW190425", "GWTC-3-confident", "BNS") }

\* No record: undefined where the code expects an event.
NoEvent == Rec("", "", "")

SeqsUpTo(S, n) == UNION { [1..k -> S] : k \in 0..n }
Distinct(s) == \A i, j \in 1..Len(s) : i # j => s[i] # s[j]
FlatLists == { s \in SeqsUpTo(Pool, MaxEvents) : Distinct(s) }

Names(s) == { s[i].name : i \in 1..Len(s) }

RECURSIVE PickFrom(_, _, _)
PickFrom(s, I, k) ==
    IF k > Len(s) THEN <<>>
    ELSE (IF k \in I THEN <<s[k]>> ELSE <<>>) \o PickFrom(s, I, k + 1)

\* The fetch job's unique-events list: one primary record per name, the
\* last-listed version, in input order.
UniqueEvents(flat) ==
    PickFrom(flat, { i \in 1..Len(flat) :
                       \A j \in (i + 1)..Len(flat) : flat[j].name # flat[i].name }, 1)

\* The documents the fetch job writes: the current format (events, all_events,
\* unique_events present or not) and the first format (events only).
ValidDocs ==
    UNION { { Obj(Arr(UniqueEvents(f)), Arr(f), Cardinality(Names(f)), Len(UniqueEvents(f))),
              Obj(Arr(UniqueEvents(f)), Arr(f), NoNum, Len(UniqueEvents(f))),
              Obj(Arr(UniqueEvents(f)), Absent, NoNum, Len(UniqueEvents(f))) }
            : f \in FlatLists }

\* Documents that parse but have no array-valued events field.
MalformedDocs ==
    { NullDoc, Obj(Absent, Absent, NoNum, NoNum), Obj(NotAnArray, Absent, NoNum, NoNum) }
    \cup UNION { { Obj(NotAnArray, Arr(f), NoNum, NoNum), Obj(Absent, Arr(f), NoNum, NoNum) }
                 : f \in { g \in FlatLists : Len(g) < MaxEvents } }

IsMalformed(doc) == doc.tag # "object" \/ ~IsArray(doc.events)

Sources ==
    { [kind |-> k, doc |-> NullDoc] : k \in {"network_error", "http_error", "bad_body"} }
    \cup { [kind |-> "ok", doc |-> d] : d \in ValidDocs \cup MalformedDocs }

-----------------------------------------------------------------------------
(* Catalog filter *)
KnownCatalogs == {"all", "GWTC-4.0", "GWTC-3-confident", "GWTC-2.1-confident",
                  "GWTC-1-confident", "O4_Discovery_Papers"}
priority(c) ==
    CASE c = "all" -> 0
      [] c = "GWTC-4.0" -> 1
      [] c = "GWTC-3-confident" -> 2
      [] c = "GWTC-2.1-confident" -> 3
      [] c = "GWTC-1-confident" -> 4
      [] c = "O4_Discovery_Papers" -> 5
      [] OTHER -> 6

\* Position of a tag in the default (code-unit) string order of Array.sort().
LexRank(c) ==
    CASE c = "GWTC-1-confident" -> 1
      [] c = "GWTC-2" -> 2
      [] c = "GWTC-2.1-confident" -> 3
      [] c = "GWTC-3-confident" -> 4
      [] c = "GWTC-4.0" -> 5
      [] c = "O4_Discovery_Papers" -> 6
      [] c = "all" -> 7
      [] c = "unknown" -> 8
      [] OTHER -> 9

\* [...new Set(events.map(e => e.catalog))].filter(c => c && c !== 'unknown')
uniqueCatalogs(events) ==
    { events[i].catalog : i \in 1..Len(events) } \ {"", "unknown"}

RECURSIVE SortByPriority(_)
SortByPriority(S) ==
    IF S = {} THEN <<>>
    ELSE LET c == CHOOSE x \in S : \A y \in S : priority(x) <= priority(y)
         IN <<c>> \o SortByPriority(S \ {c})

RECURSIVE SortLex(_)
SortLex(S) ==
    IF S = {} THEN <<>>
    ELSE LET c == CHOOSE x \in S : \A y \in S : LexRank(x) <= LexRank(y)
         IN <<c>> \o SortLex(S \ {c})

\* Variant: the script build offers every tag, in the table or not.
populateOptions_NoKnownFilter(b, old, list) ==
    IF b = "script"
    THEN <<"all">> \o SortByPriority(uniqueCatalogs(list))
    ELSE old \o SortLex(uniqueCatalogs(list))

\* The options of the select after populateCatalogFilter.  The script build
\* rewrites the select; the others append to what the page shell holds.
populateOptions(b, old, list) ==
    IF b = "script"
    THEN <<"all">> \o SortByPriority(uniqueCatalogs(list) \cap KnownCatalogs)
    ELSE old \o SortLex(uniqueCatalogs(list))

-----------------------------------------------------------------------------
(* Display *)
NoStats == [totalEvents |-> NoNum, bbhCount |-> NoNum, nsbhCount |-> NoNum,
            bnsCount |-> NoNum]
NoInfo == [kind |-> "none", displayed |-> NoNum, total |-> NoNum]

CountType(events, t) == Len(SelectSeq(events, LAMBDA e : e.source_type = t))

\* Variant: the BNS card matches the type without regard to case.
updateStats_CaseInsensitive(events) ==
    [totalEvents |-> Len(events),
     bbhCount |-> CountType(events, "BBH"),
     nsbhCount |-> CountType(events, "NSBH"),
     bnsCount |-> CountType(events, "BNS") + CountType(events, "bns")]

updateStats(events) ==
    [totalEvents |-> Len(events),
     bbhCount |-> CountType(events, "BBH"),
     nsbhCount |-> CountType(events, "NSBH"),
     bnsCount |-> CountType(events, "BNS")]

\* The total updateFilterInfo compares with, per build.
infoTotal(b, data) ==
    CASE b = "script" ->
            IF data.unique_events # NoNum /\ data.unique_events # 0
            THEN data.unique_events ELSE data.event_count
      [] b = "robust" -> Len(data.events.items)
      [] OTHER -> data.event_count

updateFilterInfo(b, n, data) ==
    [kind |-> IF n = infoTotal(b, data) THEN "all" ELSE "of",
     displayed |-> n, total |-> infoTotal(b, data)]

\* Variant: every build filters the unique-events list.
filterBase_EventsOnly(b, data, list) == data.events

\* The sequence the change handler filters for a specific tag.
filterBase(b, data, list) == IF b = "script" THEN list ELSE data.events

\* Variant: a specific tag filters what is displayed at the moment.
changeTarget_FilterDisplayed(b, value, data, list) ==
    IF value = "all" THEN data.events
    ELSE Arr(SelectSeq(displayed, LAMBDA e : e.catalog = value))

\* Variant: 'all' shows every version of the script build's list.
changeTarget_AllVersions(b, value, data, list) ==
    IF value = "all" THEN (IF b = "script" THEN list ELSE data.events)
    ELSE IF IsArray(filterBase(b, data, list))
         THEN Arr(SelectSeq(filterBase(b, data, list).items,
                            LAMBDA e : e.catalog = value))
         ELSE Absent

\* The value the change handler passes to displayEvents.
changeTarget(b, value, data, list) ==
    IF value = "all" THEN data.events
    ELSE IF IsArray(filterBase(b, data, list))
         THEN Arr(SelectSeq(filterBase(b, data, list).items,
                            LAMBDA e : e.catalog = value))
         ELSE Absent

NoSpinPlot == [kind |-> "empty", values |-> <<>>]

\* Variant: a chi_eff is kept when it is truthy.
hasSpin_Truthy(e) == e.chi_eff.tag = "number" /\ e.chi_eff.num # 0

\* e.chi_eff !== null && e.chi_eff !== undefined
hasSpin(e) == e.chi_eff.tag = "number"

\* createSpinPlot(events): the placeholder, or the histogram of the values;
\* the script build has no spin plot.
createSpinPlot(b, old, events) ==
    IF b = "script" THEN old
    ELSE LET eventsWithSpin == SelectSeq(events, hasSpin)
         IN IF Len(eventsWithSpin) = 0
            THEN [kind |-> "placeholder", values |-> <<>>]
            ELSE [kind |-> "plot",
                  values |-> [i \in 1..Len(eventsWithSpin) |->
                                 eventsWithSpin[i].chi_eff.num]]

\* One entry of the traces array: createTrace(events, name, color).
createTrace(events, name, color) ==
    [name |-> name, color |-> color, events |-> events]

\* Variant: a trace is pushed for each of the three types, empty or not.
createPlot_EveryType(events) ==
    LET OfType(t) == SelectSeq(events, LAMBDA e : e.source_type = t)
    IN <<createTrace(OfType("BBH"), "BBH (Binary Black Hole)", "#9b59b6"),
         createTrace(OfType("NSBH"), "NSBH (NS-BH)", "#e67e22"),
         createTrace(OfType("BNS"), "BNS (Binary NS)", "#3498db")>>

\* The traces createPlot hands to Plotly.newPlot.
createPlot(events) ==
    LET OfType(t) == SelectSeq(events, LAMBDA e : e.source_type = t)
        bbhEvents == OfType("BBH")
        nsbhEvents == OfType("NSBH")
        bnsEvents == OfType("BNS")
    IN (IF Len(bbhEvents) > 0
        THEN <<createTrace(bbhEvents, "BBH (Binary Black Hole)", "#9b59b6")>>
        ELSE <<>>)
       \o (IF Len(nsbhEvents) > 0
           THEN <<createTrace(nsbhEvents, "NSBH (NS-BH)", "#e67e22")>>
           ELSE <<>>)
       \o (IF Len(bnsEvents) > 0
           THEN <<createTrace(bnsEvents, "BNS (Binary NS)", "#3498db")>>
           ELSE <<>>)

\* The record the plotly_click handler of createPlot(events) passes to
\* showEventDetails; an index past the end of an array reads undefined.
clickedEvent(curveNumber, pointIndex, events) ==
    LET OfType(t) == SelectSeq(events, LAMBDA e : e.source_type = t)
        bbhEvents == OfType("BBH")
        nsbhEvents == OfType("NSBH")
        bnsEvents == OfType("BNS")
        At(a) == IF pointIndex < Len(a) THEN a[pointIndex + 1] ELSE NoEvent
    IN IF curveNumber = 0 /\ Len(bbhEvents) > 0 THEN At(bbhEvents)
       ELSE IF (curveNumber = 1 /\ Len(nsbhEvents) > 0)
               \/ (curveNumber = 0 /\ Len(bbhEvents) = 0)
       THEN At(nsbhEvents)
       ELSE At(bnsEvents)

\* allEventsList.filter(e => e.name === event.name)
allVersions(list, event) == SelectSeq(list, LAMBDA e : e.name = event.name)

\* The cards showEventDetails(event) writes for the versions.
versionCardsOf(versions, event) ==
    [i \in 1..Len(versions) |->
        [version |-> versions[i],
         isPrimary |-> versions[i].catalog = event.catalog]]

-----------------------------------------------------------------------------
(* loadData *)

\* Variant: the status check sits before the try block.
TrySteps_StatusOutside == {"fetch", "parse", "shape", "store", "populate", "display"}

\* The steps of loadData that its try block encloses.
TrySteps == {"fetch", "status", "parse", "shape", "store", "populate", "display"}

\* What the code after `await response.json()` does with the parsed document,
\* up to its end or to the first statement that throws:
\*   step     the step that threw, "none" if none did
\*   stored   allEventsData was assigned the document
\*   list     the new value of allEventsList
\*   populated  populateCatalogFilter ran to its end (options, change handler)
\*   rendered   displayEvents ran to its end
LoadOutcome(b, data) ==
    CASE b = "robust" ->
            IF IsMalformed(data)
            THEN [step |-> "shape", stored |-> FALSE, list |-> allEventsList,
                  populated |-> FALSE, rendered |-> FALSE]
            ELSE [step |-> "none", stored |-> TRUE, list |-> allEventsList,
                  populated |-> TRUE, rendered |-> TRUE]
      [] b = "plots" ->
            IF IsMalformed(data)
            THEN [step |-> "populate", stored |-> TRUE, list |-> allEventsList,
                  populated |-> FALSE, rendered |-> FALSE]
            ELSE [step |-> "none", stored |-> TRUE, list |-> allEventsList,
                  populated |-> TRUE, rendered |-> TRUE]
      [] OTHER ->
            IF data.tag = "null"
            THEN [step |-> "store", stored |-> TRUE, list |-> allEventsList,
                  populated |-> FALSE, rendered |-> FALSE]
            ELSE LET list == IF Truthy(data.all_events) THEN data.all_events
                             ELSE data.events
                 IN IF ~IsArray(list)
                    THEN [step |-> "populate", stored |-> TRUE, list |-> list,
                          populated |-> FALSE, rendered |-> FALSE]
                    ELSE IF ~IsArray(data.events)
                    THEN [step |-> "display", stored |-> TRUE, list |-> list,
                          populated |-> TRUE, rendered |-> FALSE]
                    ELSE [step |-> "none", stored |-> TRUE, list |-> list,
                          populated |-> TRUE, rendered |-> TRUE]

\* Variant: the tags are always taken from the unique-events list.
populateBase_EventsOnly(b, data, list) == data.events

\* The sequence populateCatalogFilter takes the tags from.
populateBase(b, data, list) == IF b = "script" THEN list ELSE data.events

\* Variant: the catch block starts the load again.
Catch_Retry(step) ==
    /\ pc' = "start"
    /\ failStep' = step
    /\ IF step \in TrySteps
       THEN massPlot' = "notice" /\ uncaught' = uncaught
       ELSE massPlot' = massPlot /\ uncaught' = TRUE

\* The catch block of loadData (or, for a step outside the try, the rejection).
Catch(step) ==
    /\ pc' = "failed"
    /\ failStep' = step
    /\ IF step \in TrySteps
       THEN massPlot' = "notice" /\ uncaught' = uncaught
       ELSE massPlot' = massPlot /\ uncaught' = TRUE

\* Variant: the plots build sorts the array it was given, in place.
timelineInputAfter_InPlace(b, events) ==
    IF b = "plots" THEN MergeSort(events) ELSE events

\* The array handed to createTimelinePlot, as the call leaves it: the sort
\* works on a copy ([...events] in the plots build, events.filter(...) in
\* the robust build); the script build has no timeline.
timelineInputAfter(b, events) == events

\* The stored document after displayEvents(data.events): the argument is
\* the document's own events array.
afterDisplay(b, data) ==
    [data EXCEPT !.events = Arr(timelineInputAfter(b, data.events.items))]

\* displayEvents(events) on an array.
Render(events, data) ==
    /\ stats' = updateStats(events)
    /\ traces' = createPlot(events)
    /\ spinPlot' = createSpinPlot(build, spinPlot, events)
    /\ displayed' = events
    /\ filterInfo' = updateFilterInfo(build, Len(events), data)

\* The loadData() call at the end of the script: issues the fetch.
StartLoad ==
    /\ pc = "start"
    /\ pc' = "fetching"
    /\ fetchCount' = fetchCount + 1
    /\ UNCHANGED <<build, source, allEventsData, allEventsList, options,
                   changeHandlers, selected, lastEvent, displayed, stats,
                   massPlot, filterInfo, failStep, uncaught, traces, spinPlot,
                   clickedPoint, panelOpen, panelEvent,
                   versionsShown, versionCards, classVars, tlVars, markerVars, detailVars>>

\* The fetch settles: rejection, non-success status, or a response to parse.
FetchResolve ==
    /\ pc = "fetching"
    /\ IF source.kind = "network_error" THEN Catch("fetch")
       ELSE IF source.kind = "http_error" THEN Catch("status")
       ELSE pc' = "parsing" /\ UNCHANGED <<failStep, massPlot, uncaught>>
    /\ UNCHANGED <<build, source, fetchCount, allEventsData, allEventsList,
                   options, changeHandlers, selected, lastEvent, displayed,
                   stats, filterInfo, traces, spinPlot, clickedPoint, panelOpen, panelEvent,
                   versionsShown, versionCards,
                   classVars, tlVars, markerVars, detailVars>>

\* response.json() settles and the rest of loadData runs to its end.
JsonResolve ==
    /\ pc = "parsing"
    /\ IF source.kind = "bad_body"
       THEN /\ Catch("parse")
            /\ UNCHANGED <<allEventsData, allEventsList, options, changeHandlers,
                           lastEvent, displayed, stats, filterInfo, traces, spinPlot>>
       ELSE LET data == source.doc
                out == LoadOutcome(build, data)
            IN /\ allEventsData' = IF out.rendered THEN afterDisplay(build, data)
                                   ELSE IF out.stored THEN data
                                   ELSE allEventsData
               /\ allEventsList' = out.list
               /\ options' = IF out.populated
                             THEN populateOptions(build, options,
                                      populateBase(build, data, out.list).items)
                             ELSE options
               /\ changeHandlers' = IF out.populated THEN changeHandlers + 1
                                    ELSE changeHandlers
               /\ IF out.rendered
                  THEN Render(data.events.items, data)
                  ELSE UNCHANGED <<stats, displayed, filterInfo, traces, spinPlot>>
               /\ IF out.step = "none"
                  THEN /\ pc' = "ready"
                       /\ massPlot' = "plot"
                       /\ lastEvent' = "load"
                       /\ UNCHANGED <<failStep, uncaught>>
                  ELSE Catch(out.step) /\ UNCHANGED lastEvent
    /\ UNCHANGED <<build, source, fetchCount, selected, clickedPoint, panelOpen, panelEvent,
                   versionsShown, versionCards,
                   classVars, tlVars, markerVars, detailVars>>

\* The user picks an option of the select: the change handler runs.
ChangeCatalog(value) ==
    /\ changeHandlers > 0
    /\ \E i \in 1..Len(options) : options[i] = value
    /\ selected' = value
    /\ LET target == changeTarget(build, value, allEventsData, allEventsList)
       IN IF IsArray(target)
          THEN /\ Render(target.items, allEventsData)
               /\ allEventsData' = IF value = "all"
                                   THEN afterDisplay(build, allEventsData)
                                   ELSE allEventsData
               /\ massPlot' = "plot"
               /\ lastEvent' = "change"
               /\ UNCHANGED uncaught
          ELSE /\ uncaught' = TRUE
               /\ lastEvent' = "change_threw"
               /\ UNCHANGED <<stats, displayed, filterInfo, massPlot, traces, spinPlot,
                              allEventsData>>
    /\ UNCHANGED <<build, source, pc, fetchCount, allEventsList,
                   options, changeHandlers, failStep, clickedPoint, panelOpen, panelEvent,
                   versionsShown, versionCards,
                   classVars, tlVars, markerVars, detailVars>>

\* showEventDetails(event) on a record.
showEventDetails(event) ==
    /\ panelEvent' = event
    /\ LET versions == allVersions(allEventsList.items, event)
       IN IF Len(versions) > 1
          THEN /\ versionsShown' = TRUE
               /\ versionCards' = versionCardsOf(versions, event)
          ELSE /\ versionsShown' = FALSE
               /\ versionCards' = versionCards
    /\ panelOpen' = TRUE

\* The user clicks point pointIndex of trace curveNumber of the mass plot:
\* the plotly_click handler of the last createPlot runs.
ClickPoint(curveNumber, pointIndex) ==
    /\ build = "script"
    /\ massPlot = "plot"
    /\ curveNumber < Len(traces)
    /\ pointIndex < Len(traces[curveNumber + 1].events)
    /\ clickedPoint' = traces[curveNumber + 1].events[pointIndex + 1]
    /\ LET event == clickedEvent(curveNumber, pointIndex, displayed)
       IN IF event # NoEvent
          THEN /\ showEventDetails(event)
               /\ lastEvent' = "click"
               /\ UNCHANGED uncaught
          ELSE /\ uncaught' = TRUE
               /\ lastEvent' = "click_threw"
               /\ UNCHANGED <<panelOpen, panelEvent, versionsShown, versionCards>>
    /\ UNCHANGED <<build, source, pc, fetchCount, allEventsData, allEventsList,
                   options, changeHandlers, selected, displayed, stats, massPlot,
                   filterInfo, failStep, traces, spinPlot, classVars, tlVars, markerVars, detailVars>>

\* The user clicks #closeDetailPanel; loadData adds the listener after the
\* first display.
closeDetailPanel ==
    /\ build = "script"
    /\ pc = "ready"
    /\ panelOpen
    /\ panelOpen' = FALSE
    /\ lastEvent' = "close"
    /\ UNCHANGED <<build, source, pc, fetchCount, allEventsData, allEventsList,
                   options, changeHandlers, selected, displayed, stats, massPlot,
                   filterInfo, failStep, uncaught, traces, spinPlot, clickedPoint,
                   panelEvent, versionsShown, versionCards, classVars, tlVars, markerVars, detailVars>>

ClassIdle == m1 = 0 /\ m2 = 0 /\ source_type = "unset" /\ source_type2 = "unset"
NoTypeCounts == [bbhCounts |-> <<>>, nsbhCounts |-> <<>>, bnsCounts |-> <<>>]
TimelineIdle ==
    /\ tlEvents = <<>> /\ engine = "none" /\ tlPc = "idle"
    /\ sortedEvents = <<>> /\ dates = <<>> /\ totals = <<>>
    /\ typeCounts = NoTypeCounts
MarkerIdle == snrA = NoNum /\ snrB = NoNum /\ sizeA = NoNum /\ sizeB = NoNum
NoField == [tag |-> "missing", num |-> 0]
NoText == [text |-> "none", num |-> 0]
DetailIdle == field = "none" /\ fieldValue = NoField /\ shown = NoText
PageIdle ==
    /\ source = [kind |-> "none", doc |-> NullDoc]
    /\ pc = "idle" /\ fetchCount = 0
    /\ allEventsData = NullDoc /\ allEventsList = Arr(<<>>)
    /\ options = <<"all">> /\ changeHandlers = 0 /\ selected = "all"
    /\ lastEvent = "none" /\ displayed = <<>> /\ stats = NoStats
    /\ massPlot = "empty" /\ filterInfo = NoInfo /\ failStep = "none"
    /\ uncaught = FALSE
    /\ traces = <<>> /\ clickedPoint = NoEvent /\ panelOpen = FALSE
    /\ spinPlot = NoSpinPlot
    /\ panelEvent = NoEvent /\ versionsShown = FALSE /\ versionCards = <<>>

\* Variant: the change listener is added by top-level code, before the load.
Init_ListenerAtStart ==
    /\ build \in Builds
    /\ source \in Sources
    /\ pc = "start" /\ fetchCount = 0
    /\ allEventsData = NullDoc /\ allEventsList = Arr(<<>>)
    /\ options = <<"all">> /\ changeHandlers = 1 /\ selected = "all"
    /\ lastEvent = "none" /\ displayed = <<>> /\ stats = NoStats
    /\ massPlot = "empty" /\ filterInfo = NoInfo /\ failStep = "none"
    /\ uncaught = FALSE
    /\ traces = <<>> /\ clickedPoint = NoEvent /\ panelOpen = FALSE
    /\ spinPlot = NoSpinPlot
    /\ panelEvent = NoEvent /\ versionsShown = FALSE /\ versionCards = <<>>
    /\ ClassIdle /\ TimelineIdle /\ MarkerIdle /\ DetailIdle

Init ==
    /\ build \in Builds
    /\ source \in Sources
    /\ pc = "start" /\ fetchCount = 0
    /\ allEventsData = NullDoc /\ allEventsList = Arr(<<>>)
    /\ options = <<"all">> /\ changeHandlers = 0 /\ selected = "all"
    /\ lastEvent = "none" /\ displayed = <<>> /\ stats = NoStats
    /\ massPlot = "empty" /\ filterInfo = NoInfo /\ failStep = "none"
    /\ uncaught = FALSE
    /\ traces = <<>> /\ clickedPoint = NoEvent /\ panelOpen = FALSE
    /\ spinPlot = NoSpinPlot
    /\ panelEvent = NoEvent /\ versionsShown = FALSE /\ versionCards = <<>>
    /\ ClassIdle /\ TimelineIdle /\ MarkerIdle /\ DetailIdle

Next ==
    \/ StartLoad
    \/ FetchResolve
    \/ JsonResolve
    \/ \E value \in KnownCatalogs \cup { r.catalog : r \in Pool } : ChangeCatalog(value)
    \/ \E curveNumber \in 0..2, pointIndex \in 0..(MaxEvents - 1) :
          ClickPoint(curveNumber, pointIndex)
    \/ closeDetailPanel

Spec == Init /\ [][Next]_vars

-----------------------------------------------------------------------------
(* Source classification (fetch job) *)

NS_THRESHOLD == 30
MassSpread == 3
Masses == ((NS_THRESHOLD - MassSpread)..(NS_THRESHOLD + MassSpread))
          \cup {0, 13, 14, 50, 291, 362}

\* Variant: a black hole is strictly heavier than the threshold, as the field
\* table words it, and nothing else is.
classify_StrictOnly(a, b) ==
    IF b < NS_THRESHOLD /\ a < NS_THRESHOLD THEN "BNS"
    ELSE IF b < NS_THRESHOLD /\ a > NS_THRESHOLD THEN "NSBH"
    ELSE IF b > NS_THRESHOLD /\ a > NS_THRESHOLD THEN "BBH"
    ELSE "None"

\* source_type from the component masses a >= b.
classify(a, b) ==
    IF b < NS_THRESHOLD /\ a < NS_THRESHOLD THEN "BNS"
    ELSE IF b < NS_THRESHOLD /\ a > NS_THRESHOLD THEN "NSBH"
    ELSE "BBH"

InitClassify ==
    /\ build = "fetch_job"
    /\ m1 \in Masses /\ m2 \in Masses /\ m1 >= m2
    /\ source_type = "unset" /\ source_type2 = "unset"
    /\ PageIdle /\ TimelineIdle /\ MarkerIdle /\ DetailIdle

\* The fetch job classifies the event.
ClassifyEvent ==
    /\ source_type = "unset"
    /\ source_type' = classify(m1, m2)
    /\ UNCHANGED <<build, pageVars, m1, m2, source_type2, tlVars, markerVars,
                   detailVars>>

\* The classification is computed again on the same masses.
Reclassify ==
    /\ source_type # "unset" /\ source_type2 = "unset"
    /\ source_type2' = classify(m1, m2)
    /\ UNCHANGED <<build, pageVars, m1, m2, source_type, tlVars, markerVars,
                   detailVars>>

NextClassify == ClassifyEvent \/ Reclassify

SpecClassify == InitClassify /\ [][NextClassify]_vars

\* The rule as specified: both >= threshold BBH, both < threshold BNS, else NSBH.
SpecifiedType(a, b) ==
    IF a >= NS_THRESHOLD /\ b >= NS_THRESHOLD THEN "BBH"
    ELSE IF a < NS_THRESHOLD /\ b < NS_THRESHOLD THEN "BNS"
    ELSE "NSBH"

\* C3: for all masses m1 >= m2 >= 0, a mass equal to the threshold included,
\* the classification is BBH when both are >= 3, BNS when both are < 3 and
\* NSBH otherwise; (36.2, 29.1) is BBH, (1.4, 1.3) BNS, (5.0, 1.4) NSBH and
\* (3.0, 3.0) BBH.
C3_ClassifyFollowsRule ==
    source_type # "unset" => source_type = SpecifiedType(m1, m2)

\* C4: the classification yields exactly one of BBH, NSBH, BNS, and computing
\* it again on the same masses yields the same result.
C4_ClassifyTotalAndStable ==
    /\ source_type # "unset" =>
          Cardinality({ t \in KnownTypes : t = source_type }) = 1
    /\ source_type2 # "unset" => source_type2 = source_type

C4_Witness ==
    /\ source_type2 # "unset"
    /\ m1 = NS_THRESHOLD /\ m2 = NS_THRESHOLD
    /\ source_type = "BBH"

-----------------------------------------------------------------------------
(* Cumulative-detections timeline (robust and plots builds) *)

TlRec(n, dt, t) == [name |-> n, detection_date |-> dt, source_type |-> t]
TlPool == { TlRec("GW150914", Date(2015, 9, 14), "BBH"),
            TlRec("GW200101", Date(2020, 1, 1), "BNS"),
            TlRec("GW230501", Date(2023, 5, 1), "NSBH"),
            TlRec("GW200101b", Date(2020, 1, 1), "BBH"),
            TlRec("GW190000", UnknownDate, "BBH"),
            TlRec("GW190001", UnknownDate, "BNS") }
TlInputs == { s \in SeqsUpTo(TlPool, MaxTimeline) : Distinct(s) }

\* Variant: a type's count is pushed only at the points of that type.
typeSeries_OwnPointsOnly(points, t) ==
    [i \in 1..Len(SelectSeq(points, LAMBDA e : e.source_type = t)) |-> i]

\* bbhCounts / nsbhCounts / bnsCounts: at each pushed point, the number of
\* records of the type among the points so far.
typeSeries(points, t) ==
    [i \in 1..Len(points) |->
        Cardinality({ j \in 1..i : points[j].source_type = t })]

\* The three per-type series; the robust build draws the total only.
typeCountsOf(b, points) ==
    IF b = "plots"
    THEN [bbhCounts |-> typeSeries(points, "BBH"),
          nsbhCounts |-> typeSeries(points, "NSBH"),
          bnsCounts |-> typeSeries(points, "BNS")]
    ELSE NoTypeCounts

InitTimeline ==
    /\ build \in {"robust", "plots"}
    /\ engine \in Engines
    /\ tlEvents \in TlInputs
    /\ tlPc = "input"
    /\ sortedEvents = <<>> /\ dates = <<>> /\ totals = <<>>
    /\ typeCounts = NoTypeCounts
    /\ PageIdle /\ ClassIdle /\ MarkerIdle /\ DetailIdle

\* createTimelinePlot(events)
CreateTimelinePlot ==
    /\ tlPc = "input"
    /\ LET sorted == timelineSorted(build, engine, tlEvents)
           points == timelinePoints(build, sorted)
       IN /\ sortedEvents' = sorted
          /\ dates' = [i \in 1..Len(points) |-> points[i].detection_date]
          /\ totals' = [i \in 1..Len(points) |-> i]
          /\ typeCounts' = typeCountsOf(build, points)
    /\ tlPc' = "done"
    /\ UNCHANGED <<build, pageVars, classVars, tlEvents, engine, markerVars,
                   detailVars>>

NextTimeline == CreateTimelinePlot

SpecTimeline == InitTimeline /\ [][NextTimeline]_vars

Dated(s) == SelectSeq(s, HasDate)
IndexIn(s, e) == CHOOSE i \in 1..Len(s) : s[i] = e

\* C6: in any input order and with 'Unknown'-date records anywhere, the date
\* series is in non-decreasing calendar order and the cumulative total series
\* is 1, 2, ..., n, n the number of records with a known date.
C6_TimelineSortedAndCounted ==
    tlPc = "done" =>
        /\ \A i \in 1..(Len(dates) - 1) : DateValue(dates[i]) <= DateValue(dates[i + 1])
        /\ totals = [i \in 1..Len(Dated(tlEvents)) |-> i]
        /\ Len(dates) = Len(Dated(tlEvents))

\* C7: the date series is a permutation of exactly the displayed records with
\* a known date (each once, no 'Unknown' record), and records with equal
\* dates appear in their input order.
C7_TimelinePermutationStable ==
    tlPc = "done" =>
        LET points == Dated(sortedEvents)
        IN /\ Len(dates) = Len(points)
           /\ \A i \in 1..Len(dates) : dates[i] = points[i].detection_date
           /\ \A i \in 1..Len(dates) : dates[i].known
           /\ Len(points) = Len(Dated(tlEvents))
           /\ { points[i] : i \in 1..Len(points) }
                 = { tlEvents[i] : i \in { j \in 1..Len(tlEvents) : HasDate(tlEvents[j]) } }
           /\ \A i, j \in 1..Len(points) :
                 (i < j /\ points[i].detection_date = points[j].detection_date)
                    => IndexIn(tlEvents, points[i]) < IndexIn(tlEvents, points[j])

-----------------------------------------------------------------------------
(* Marker size (createTrace) *)

MaxSnr == 30
MinMarkerSize == 8
MaxMarkerSize == 25
DefaultSnr == 10

\* snr as the data model has it: a positive number, or absent (NoNum).
SnrValues == (1..MaxSnr) \cup {NoNum}

Min2(a, b) == IF a < b THEN a ELSE b
Max2(a, b) == IF a > b THEN a ELSE b

\* Variant: the size is bounded from below only.
markerSize_NoUpperClamp(snr) ==
    Max2(MinMarkerSize, IF snr = NoNum \/ snr = 0 THEN DefaultSnr ELSE snr)

\* Math.max(8, Math.min(25, e.snr || 10)): undefined, null and 0 are falsy.
markerSize(snr) ==
    Max2(MinMarkerSize,
         Min2(MaxMarkerSize, IF snr = NoNum \/ snr = 0 THEN DefaultSnr ELSE snr))

InitMarker ==
    /\ build \in Builds
    /\ snrA \in SnrValues /\ snrB \in SnrValues
    /\ sizeA = NoNum /\ sizeB = NoNum
    /\ PageIdle /\ ClassIdle /\ TimelineIdle /\ DetailIdle

\* createTrace on the two records: marker.size = events.map(...)
CreateTraceSizes ==
    /\ sizeA = NoNum
    /\ sizeA' = markerSize(snrA)
    /\ sizeB' = markerSize(snrB)
    /\ UNCHANGED <<build, pageVars, classVars, tlVars, snrA, snrB, detailVars>>

NextMarker == CreateTraceSizes

SpecMarker == InitMarker /\ [][NextMarker]_vars

\* C19: the marker size is the snr clamped to [8, 25], 10 when the snr is
\* absent; it lies within [8, 25] and does not decrease when the snr
\* increases.
C19_MarkerSizeClampsSnr ==
    sizeA # NoNum =>
        /\ sizeA \in MinMarkerSize..MaxMarkerSize
        /\ snrA = NoNum => sizeA = DefaultSnr
        /\ (snrA # NoNum /\ snrA < MinMarkerSize) => sizeA = MinMarkerSize
        /\ (snrA # NoNum /\ snrA > MaxMarkerSize) => sizeA = MaxMarkerSize
        /\ snrA \in MinMarkerSize..MaxMarkerSize => sizeA = snrA
        /\ (snrA # NoNum /\ snrB # NoNum /\ snrA <= snrB) => sizeA <= sizeB

C19_Witness ==
    /\ snrA = MinMarkerSize - 1 /\ sizeA = MinMarkerSize
    /\ snrB = MaxMarkerSize + 1 /\ sizeB = MaxMarkerSize

-----------------------------------------------------------------------------
(* Detail panel parameter values (showEventDetails) *)

MaxFieldValue == 5

\* The parameters of the panel that come from optional fields, and snr.
OrFields == {"snr", "redshift"}
TernaryFields == {"total_mass_source", "chirp_mass_source",
                  "luminosity_distance", "final_mass_source"}
NotNullFields == {"chi_eff", "final_spin"}
PanelFields == OrFields \cup TernaryFields \cup NotNullFields

\* What a record can hold for a field: no such key, null, or a number.
FieldValues ==
    { [tag |-> "missing", num |-> 0], [tag |-> "null", num |-> 0] }
    \cup { [tag |-> "number", num |-> n] : n \in 0..MaxFieldValue }

NA == [text |-> "N/A", num |-> 0]
Value(n) == [text |-> "value", num |-> n]
UndefinedText == [text |-> "undefined", num |-> 0]

\* The text of the parameter-value element for a field:
\*   event.f || 'N/A' and event.f ? `${event.f} unit` : 'N/A' show the value
\*   when it is truthy; event.f !== null ? event.f : 'N/A' shows whatever is
\*   not null, and the template writes undefined as 'undefined'.
parameterValue(f, v) ==
    IF f \in NotNullFields
    THEN (CASE v.tag = "null" -> NA
            [] v.tag = "missing" -> UndefinedText
            [] OTHER -> Value(v.num))
    ELSE (IF v.tag = "number" /\ v.num # 0 THEN Value(v.num) ELSE NA)

InitDetail ==
    /\ build = "script"
    /\ field \in PanelFields
    /\ fieldValue \in FieldValues
    /\ shown = NoText
    /\ PageIdle /\ ClassIdle /\ TimelineIdle /\ MarkerIdle

\* showEventDetails writes the parameter list.
ShowParameter ==
    /\ shown = NoText
    /\ shown' = parameterValue(field, fieldValue)
    /\ UNCHANGED <<build, pageVars, classVars, tlVars, markerVars, field,
                   fieldValue>>

NextDetail == ShowParameter

SpecDetail == InitDetail /\ [][NextDetail]_vars

\* C20: the panel shows the value of an optional field or of snr when the
\* record holds a number for it, 0 included, and 'N/A' exactly when the
\* field is null or its key is missing.
C20_ValueOrNotAvailable ==
    shown # NoText =>
        /\ fieldValue.tag = "number" => shown = Value(fieldValue.num)
        /\ fieldValue.tag \in {"null", "missing"} <=> shown = NA

-----------------------------------------------------------------------------
(* Properties of the page *)

\* The flat all-versions sequence of a document: all_events when the document
\* carries it, the events array otherwise.
SnapshotFlat(doc) == IF IsArray(doc.all_events) THEN doc.all_events.items
                     ELSE doc.events.items
\* The all-versions sequence a build works on: the builds that read no
\* all_events field have the events array as their only sequence.
FlatOf(b, doc) == IF b = "script" THEN SnapshotFlat(doc) ELSE doc.events.items

OnePerName(s) == \A i, j \in 1..Len(s) : s[i].name = s[j].name => i = j

\* d is exactly the records of flat tagged t, in the order of flat.
IsFilterOf(d, flat, t) ==
    LET I == { i \in 1..Len(flat) : flat[i].catalog = t }
    IN /\ Len(d) = Cardinality(I)
       /\ \A k \in 1..Len(d) :
            /\ d[k].catalog = t
            /\ \E i \in I : Cardinality({ j \in I : j <= i }) = k /\ d[k] = flat[i]

Unrecognized(s) == Cardinality({ i \in 1..Len(s) : s[i].source_type \notin KnownTypes })

C2_TagShowsExactlyTagged ==
    (lastEvent = "change" /\ selected # "all") =>
        IsFilterOf(displayed, FlatOf(build, source.doc), selected)

C2_Witness ==
    /\ lastEvent = "change" /\ selected = "GWTC-1-confident"
    /\ build = "script"
    /\ Len(displayed) = 2
    /\ Len(source.doc.all_events.items) = 3
    /\ Len(source.doc.events.items) = 2

\* C5: the stat cards satisfy total = length of the displayed sequence, and
\* total - (bbh + nsbh + bns) = number of displayed records whose source_type
\* is not exactly 'BBH', 'NSBH' or 'BNS'.
C5_StatsAccountForKnownTypes ==
    stats # NoStats =>
        /\ stats.totalEvents = Len(displayed)
        /\ stats.totalEvents - (stats.bbhCount + stats.nsbhCount + stats.bnsCount)
              = Unrecognized(displayed)

C5_Witness ==
    /\ stats # NoStats
    /\ stats.totalEvents = 3
    /\ Unrecognized(displayed) = 2
    /\ \E i \in 1..Len(displayed) : displayed[i].source_type = "bns"

\* C8: a parsed document with no array-valued events field ends loading in
\* the failure state with nothing partially rendered: no stats, no filter
\* options, no plot, no change handler written before the failure.
C8_MalformedNothingRendered ==
    (source.kind = "ok" /\ IsMalformed(source.doc) /\ pc \in {"ready", "failed"}) =>
        /\ pc = "failed"
        /\ (lastEvent = "none" =>
              /\ massPlot = "notice"
              /\ stats = NoStats
              /\ options = <<"all">>
              /\ changeHandlers = 0
              /\ displayed = <<>>)

\* C9: when the fetch fails at transport level, returns a non-success status,
\* or the body cannot be parsed, loadData renders the failure notice in the
\* mass-plot area and no exception escapes it.
C9_FetchFailureRendersNotice ==
    (pc = "failed" /\ source.kind \in {"network_error", "http_error", "bad_body"}) =>
        /\ massPlot = "notice"
        /\ ~uncaught
        /\ failStep \in {"fetch", "status", "parse"}

C9_Witness ==
    /\ pc = "failed" /\ source.kind = "http_error" /\ failStep = "status"
    /\ massPlot = "notice"

\* C10: after a load that failed at any step the page is non-interactive and
\* not partially initialized: no change handler is registered, the global
\* snapshot is not set to the failed document, and nothing later changes the
\* display or throws.
C10_FailedLoadLeavesNothing ==
    pc = "failed" =>
        /\ changeHandlers = 0
        /\ allEventsData = NullDoc
        /\ massPlot = "notice"
        /\ ~uncaught

\* C11: the catalog fetch is issued exactly once per page load: never a
\* second time, whatever failed and whatever the user does afterwards, and
\* once as soon as the load has started.
C11_FetchIssuedOnce ==
    /\ fetchCount <= 1
    /\ pc # "start" => fetchCount = 1

C11_Witness ==
    /\ pc = "failed" /\ failStep # "none"
    /\ lastEvent = "change"
    /\ fetchCount = 1

\* The all-versions list as loaded (the script build keeps one).
LoadedList(b, doc) ==
    IF b = "script"
    THEN (IF Truthy(doc.all_events) THEN doc.all_events ELSE doc.events)
    ELSE Arr(<<>>)

\* C12: after a successful load the snapshot stays what was loaded: the
\* stored document (its events and all-events lists, their order, every
\* record) and the all-versions list equal the fetched document after the
\* initial display and after every selection, point click and panel close.
C12_SnapshotStaysAsLoaded ==
    pc = "ready" =>
        /\ allEventsData = source.doc
        /\ allEventsList = LoadedList(build, source.doc)

C12_Witness ==
    /\ pc = "ready" /\ build = "plots"
    /\ lastEvent = "change" /\ selected = "all"
    /\ Len(displayed) > 1
    /\ compareDates(displayed[1], displayed[2]) > 0

\* C13: while loadData is suspended (before the fetch, on the fetch, on the
\* reading of its body) nothing has been rendered, populated or handled;
\* and wherever a display or a handler has run, the stored snapshot is not
\* null.
C13_NothingRunsBeforeSnapshot ==
    /\ pc \in {"start", "fetching", "parsing"} =>
          /\ stats = NoStats /\ filterInfo = NoInfo
          /\ massPlot = "empty" /\ traces = <<>>
          /\ options = <<"all">> /\ changeHandlers = 0
          /\ lastEvent = "none" /\ ~panelOpen
    /\ (stats # NoStats \/ massPlot = "plot" \/ changeHandlers > 0
           \/ lastEvent # "none") =>
          allEventsData # NullDoc

C13_Witness ==
    /\ pc = "ready"
    /\ lastEvent = "change" /\ selected # "all"
    /\ stats.totalEvents > 0
    /\ allEventsData = source.doc

PrimaryCards == { i \in 1..Len(versionCards) : versionCards[i].isPrimary }

\* C14: when the panel lists the versions of a name, exactly one card
\* carries the Primary badge, and it is the record the default ('all') view
\* displays for that name, whichever view the point was clicked in.
C14_PrimaryCardIsDefaultRecord ==
    (pc = "ready" /\ panelOpen /\ versionsShown) =>
        /\ Cardinality(PrimaryCards) = 1
        /\ \A i \in PrimaryCards :
              \E j \in 1..Len(allEventsData.events.items) :
                 allEventsData.events.items[j] = versionCards[i].version

SameName(list, e) == SelectSeq(list, LAMBDA r : r.name = e.name)
CardVersions == [i \in 1..Len(versionCards) |-> versionCards[i].version]

\* C15: after a click on a point, the versions section of the panel is
\* shown exactly when the all-events list holds more than one record with
\* the name of the clicked point's record, and its cards are then exactly
\* those records, in input order.
C15_VersionsOfClickedRecord ==
    lastEvent \in {"click", "click_threw"} =>
        /\ (panelOpen /\ versionsShown)
              = (Len(SameName(allEventsList.items, clickedPoint)) > 1)
        /\ (panelOpen /\ versionsShown) =>
              CardVersions = SameName(allEventsList.items, clickedPoint)

\* all_events when the document has that array, events otherwise.
AllOrEvents(doc) ==
    IF IsArray(doc.all_events) THEN doc.all_events.items ELSE doc.events.items

\* C16: in the script build the offered tags, the filtering for a specific
\* tag and the version lookup work on all_events when the document has that
\* array and on events when it has not; the initial display and the 'all'
\* view are the events array.
C16_AllEventsWhenPresent ==
    (build = "script" /\ pc = "ready") =>
        LET base == AllOrEvents(source.doc)
        IN /\ { options[i] : i \in 1..Len(options) }
                = {"all"} \cup ({ base[i].catalog : i \in 1..Len(base) }
                                  \cap KnownCatalogs)
           /\ (lastEvent = "change" /\ selected # "all") =>
                 displayed = SelectSeq(base, LAMBDA e : e.catalog = selected)
           /\ (lastEvent = "load" \/ (lastEvent = "change" /\ selected = "all")) =>
                 displayed = source.doc.events.items
           /\ lastEvent = "click" =>
                 /\ versionsShown = (Len(SameName(base, panelEvent)) > 1)
                 /\ versionsShown => CardVersions = SameName(base, panelEvent)

C16_Witness ==
    /\ build = "script" /\ pc = "ready"
    /\ IsArray(source.doc.all_events)
    /\ Len(source.doc.all_events.items) > Len(source.doc.events.items)
    /\ selected # "all" /\ lastEvent = "click"
    /\ versionsShown /\ Len(versionCards) = 2
    /\ Len(options) > 2

\* The display the snapshot and a filter value determine.
ViewOf(b, doc, value) ==
    IF value = "all" THEN doc.events.items
    ELSE SelectSeq(FlatOf(b, doc), LAMBDA e : e.catalog = value)
NumOfType(s, t) == Cardinality({ i \in 1..Len(s) : s[i].source_type = t })

\* C17: after any selections the displayed sequence and the stats are a
\* function of the loaded snapshot and the value now selected; with 'all'
\* selected they are those of the initial display.
C17_DisplayDependsOnSelectionOnly ==
    pc = "ready" =>
        LET view == ViewOf(build, source.doc, selected)
        IN /\ displayed = view
           /\ stats = [totalEvents |-> Len(view),
                       bbhCount |-> NumOfType(view, "BBH"),
                       nsbhCount |-> NumOfType(view, "NSBH"),
                       bnsCount |-> NumOfType(view, "BNS")]
           /\ selected = "all" => displayed = source.doc.events.items

C17_Witness ==
    /\ pc = "ready"
    /\ lastEvent = "change" /\ selected = "all"
    /\ Len(displayed) >= 2 /\ Len(options) > 2
    /\ displayed = source.doc.events.items

\* The documented colour of a source type.
ColorScheme(t) ==
    CASE t = "BBH" -> "#9b59b6"
      [] t = "NSBH" -> "#e67e22"
      [] OTHER -> "#3498db"
PlottedTypes(s) ==
    SelectSeq(<<"BBH", "NSBH", "BNS">>, LAMBDA t : NumOfType(s, t) > 0)
RECURSIVE PointCount(_)
PointCount(trs) ==
    IF trs = <<>> THEN 0 ELSE Len(Head(trs).events) + PointCount(Tail(trs))

\* C18: the mass plot has one series per source type with a displayed
\* record, in the order BBH, NSBH, BNS and in the documented colours; a
\* series holds exactly the displayed records of its type, in display
\* order; the points number bbhCount + nsbhCount + bnsCount and no record
\* of another type is plotted.
C18_OneSeriesPerDisplayedType ==
    massPlot = "plot" =>
        LET types == PlottedTypes(displayed)
        IN /\ Len(traces) = Len(types)
           /\ \A i \in 1..Len(traces) :
                 /\ traces[i].color = ColorScheme(types[i])
                 /\ traces[i].events
                       = SelectSeq(displayed, LAMBDA e : e.source_type = types[i])
                 /\ traces[i].events # <<>>
           /\ PointCount(traces)
                 = stats.bbhCount + stats.nsbhCount + stats.bnsCount
           /\ \A i \in 1..Len(traces) : \A j \in 1..Len(traces[i].events) :
                 traces[i].events[j].source_type \in KnownTypes

C18_Witness ==
    /\ massPlot = "plot"
    /\ Len(traces) = 2
    /\ traces[1].color = "#e67e22" /\ traces[2].color = "#3498db"
    /\ PointCount(traces) < Len(displayed)

\* C21: a click on a plotted point passes to showEventDetails the record
\* that point represents: never undefined (the handler does not throw) and
\* never a record of another series.
C21_ClickShowsClickedRecord ==
    lastEvent \in {"click", "click_threw"} =>
        /\ lastEvent = "click"
        /\ panelEvent = clickedPoint

InDisplayed(e) == \E j \in 1..Len(displayed) : displayed[j] = e

\* C22: whatever was selected before, a click on a plotted point opens the
\* panel on a record of the sequence displayed now, not on one of a
\* sequence displayed earlier.
C22_ClickOpensCurrentRecord ==
    lastEvent \in {"click", "click_threw"} =>
        /\ panelOpen
        /\ InDisplayed(panelEvent)

\* C23: whenever the detail panel is visible, the record it shows is one
\* of the sequence displayed now.
C23_PanelShowsDisplayedRecord ==
    panelOpen => InDisplayed(panelEvent)

TagsOf(s) == { s[i].catalog : i \in 1..Len(s) }

\* C24: after a successful load the select of the script build offers
\* 'all' first, then every tag that occurs in the all-events sequence and
\* is in the catalog table, once each, by increasing priority, and no
\* empty, 'unknown' or unlisted tag; every offered tag selects a non-empty
\* sequence, and a record whose tag is not offered is displayed only with
\* 'all' selected.
C24_OfferedCatalogs ==
    (build = "script" /\ pc = "ready") =>
        LET base == AllOrEvents(source.doc)
        IN /\ options[1] = "all"
           /\ { options[i] : i \in 2..Len(options) }
                = TagsOf(base) \cap KnownCatalogs
           /\ \A i, j \in 2..Len(options) :
                 i < j => priority(options[i]) < priority(options[j])
           /\ \A i \in 2..Len(options) :
                 /\ options[i] \notin {"", "unknown", "all"}
                 /\ SelectSeq(base, LAMBDA e : e.catalog = options[i]) # <<>>
           /\ selected # "all" =>
                 \A j \in 1..Len(displayed) :
                    \E i \in 2..Len(options) : options[i] = displayed[j].catalog

C24_Witness ==
    /\ build = "script" /\ pc = "ready"
    /\ options = <<"all", "GWTC-3-confident", "GWTC-1-confident">>
    /\ "GWTC-2" \in TagsOf(allEventsList.items)
    /\ lastEvent = "change" /\ selected = "GWTC-1-confident"

\* C25: the info line is of the 'Showing all N' form exactly when the
\* displayed sequence is the whole unique-events sequence, and of the
\* 'Showing X of N' form, with X the number displayed, for a specific tag
\* that shows other records; N is the number of distinct names.
C25_FilterInfoLine ==
    pc = "ready" =>
        /\ filterInfo.total = Cardinality(Names(FlatOf(build, source.doc)))
        /\ filterInfo.displayed = Len(displayed)
        /\ filterInfo.kind = "all" <=> displayed = source.doc.events.items
        /\ (selected # "all" /\ displayed # source.doc.events.items) =>
              filterInfo.kind = "of"

StepsByAtMostOne(c) ==
    /\ Len(c) > 0 => c[1] \in {0, 1}
    /\ \A i \in 2..Len(c) : c[i] - c[i - 1] \in {0, 1}

\* C26: in the timeline with per-type series, the total, BBH, NSBH and BNS
\* series are as long as the date series, each starts at 0 or 1 and grows
\* by 0 or 1 per point; the total is the sum of the three at every point
\* when every dated record has a known type; the last total is the number
\* of displayed records with a known date.
C26_TimelineTypeSeries ==
    (build = "plots" /\ tlPc = "done") =>
        LET series == <<totals, typeCounts.bbhCounts, typeCounts.nsbhCounts,
                        typeCounts.bnsCounts>>
        IN /\ \A k \in 1..4 :
                 Len(series[k]) = Len(dates) /\ StepsByAtMostOne(series[k])
           /\ (\A i \in 1..Len(tlEvents) :
                  HasDate(tlEvents[i]) => tlEvents[i].source_type \in KnownTypes)
                 => \A i \in 1..Len(dates) :
                       totals[i] = typeCounts.bbhCounts[i]
                                   + typeCounts.nsbhCounts[i]
                                   + typeCounts.bnsCounts[i]
           /\ Len(dates) = Len(Dated(tlEvents))
           /\ Len(dates) > 0 => totals[Len(dates)] = Len(Dated(tlEvents))

C26_Witness ==
    /\ build = "plots" /\ tlPc = "done"
    /\ Len(tlEvents) > Len(dates) /\ Len(dates) = 4
    /\ typeCounts.bbhCounts[4] = 2
    /\ typeCounts.nsbhCounts[4] = 1
    /\ typeCounts.bnsCounts[4] = 1

PickValues(s, I) ==
    LET picked == PickFrom(s, I, 1)
    IN [i \in 1..Len(picked) |-> picked[i].chi_eff.num]

\* C27: where a spin plot exists (robust and plots builds), the histogram
\* holds the chi_eff of exactly the displayed records that have one (null
\* and missing excluded, 0 kept), in display order; the placeholder stands
\* in its place, with no plot, exactly when no displayed record has one.
C27_SpinHistogram ==
    (build \in {"robust", "plots"} /\ pc = "ready") =>
        LET with == { i \in 1..Len(displayed) :
                        displayed[i].chi_eff.tag \notin {"null", "missing"} }
        IN /\ spinPlot.kind = "placeholder" <=> with = {}
           /\ spinPlot.kind = "plot" <=> with # {}
           /\ spinPlot.values
                 = PickValues(displayed, with)

C27_Witness ==
    /\ build \in {"robust", "plots"} /\ pc = "ready"
    /\ lastEvent = "change"
    /\ spinPlot.kind = "plot"
    /\ Len(spinPlot.values) = 2 /\ Len(displayed) = 3
    /\ spinPlot.values[1] = 0

=============================================================================
